---------------------------- MODULE Spec2Model ----------------------------
(***************************************************************************)
(* Daily Task Log (src/app.py): a Streamlit form whose entries are         *)
(* validated and appended as rows to a Google Sheet.                       *)
(*                                                                         *)
(* Strings are sequences of one-character strings, so that str.strip() and *)
(* len() are computed and not assumed.  A script run of the Streamlit app  *)
(* is a sequence of steps of the state machine below; the two retry loops  *)
(* (open_sheet_cached, append_rows_batch) take one step per iteration.     *)
(***************************************************************************)
EXTENDS Integers, Sequences, FiniteSets, TLC

VARIABLES
    sheet_id,         \* the configured sheet_id setting (line 251)
    sheet_cached,     \* st.cache_resource holds the result of open_sheet_cached
    cache_valid,      \* st.cache_data holds an unexpired load_task_options_cached result
    task_options,     \* the script global task_options of the latest run (line 257)
    has_tasks,        \* "tasks" in st.session_state
    tasks,            \* st.session_state.tasks
    employee_name,    \* st.session_state["employee_name"]
    widget_keys,      \* the per-row widget keys present in st.session_state
    reset_requested,  \* st.session_state["reset_requested"]
    toast_msg,        \* st.session_state["toast_msg"]
    toast_shown,      \* st.toast was called by the current run
    pc,               \* where the script is
    attempt,          \* 1-based position in backoffs of the running retry loop
    waited,           \* the time.sleep calls of the running retry loop, in order
    last_err,         \* last_err of the running retry loop
    raised,           \* the exception the retry loop of the current run has raised
    rows,             \* the rows the submit handler hands to append_rows_batch
    appended,         \* the rows values_append has added to the log tab in the current run
    screen,           \* what the current run has put on the page
    errs,             \* the validation errors the current run displays
    arg,              \* input of the function under study (function specifications)
    ret               \* its result

vars == << sheet_id, sheet_cached, cache_valid, task_options, has_tasks, tasks,
           employee_name, widget_keys, reset_requested, toast_msg, toast_shown,
           pc, attempt, waited, last_err, raised, rows, appended, screen, errs,
           arg, ret >>

(***************************************************************************)
(* Program constants                                                       *)
(***************************************************************************)
QTY_MIN == 1

QTY_MAX == 200

\* The literal "Other".
Other == << "O", "t", "h", "e", "r" >>

\* Python's None, and an int, as values of a dictionary field.
None == << "None" >>

PyIntVal(n) == << "int", n >>

NoError == "none"

\* st.session_state holds no "toast_msg".
NoToast == ""

(***************************************************************************)
(* Bounds of the model                                                     *)
(***************************************************************************)
\* add_task_row has no cap in the code; the model stops adding at MaxTasks.
MaxTasks == 2

\* Longest task list handed to validate in SpecValidate.
MaxValTasks == 2

\* Longest Config column read in SpecCatalog.
MaxCol == 3

(***************************************************************************)
(* Strings                                                                 *)
(***************************************************************************)
IsSpace(c) == c = " "

RECURSIVE lstrip(_)
lstrip(s) ==
    IF s = << >> THEN << >>
    ELSE IF IsSpace(Head(s)) THEN lstrip(Tail(s)) ELSE s

RECURSIVE rstrip(_)
rstrip(s) ==
    IF s = << >> THEN << >>
    ELSE IF IsSpace(s[Len(s)]) THEN rstrip(SubSeq(s, 1, Len(s) - 1)) ELSE s

\* str.strip()
strip(s) == rstrip(lstrip(s))

\* x in list
Contains(list, x) == \E i \in 1..Len(list) : list[i] = x

\* list.count(x)
Count(list, x) == Cardinality({ i \in 1..Len(list) : list[i] = x })

\* int(v) of a field value; Len 0 stands for the exception int(None) raises.
PyInt(v) == IF v[1] = "int" THEN << v[2] >> ELSE << >>

(***************************************************************************)
(* _is_rate_limit_error: the messages the remote calls fail with, and      *)
(* which of them hold "429", "Quota exceeded" or "rate limit".             *)
(***************************************************************************)
RateLimitMessages ==
    { "APIError: [429]: Quota exceeded for quota metric", "APIError: Rate Limit Exceeded" }

OtherMessages ==
    { "APIError: [403]: The caller does not have permission", "WorksheetNotFound" }

_is_rate_limit_error(e) == e \in RateLimitMessages

\* What sh.worksheet(tab_config) and ws.col_values(1) fail with.
ReadErrors == { "APIError: [429]: Quota exceeded for quota metric", "WorksheetNotFound" }

(***************************************************************************)
(* load_task_options_cached, from the column ws.col_values(1) returns.     *)
(* The result is [ok |-> TRUE, value |-> the list] or, when the function   *)
(* raises RuntimeError, [ok |-> FALSE, value |-> << >>].                   *)
(***************************************************************************)
StripAll(col) == [ i \in 1..Len(col) |-> strip(col[i]) ]

NonBlank(x) == x # << >>

\* load_task_options_cached without lines 125-126.
load_task_options_NoAppend(col) ==
    LET t == SelectSeq(StripAll(col), NonBlank)
    IN  IF t = << >> THEN [ok |-> FALSE, value |-> << >>]
        ELSE [ok |-> TRUE, value |-> t]

load_task_options(col) ==
    LET t == SelectSeq(StripAll(col), NonBlank)
    IN  IF t = << >> THEN [ok |-> FALSE, value |-> << >>]
        ELSE IF ~Contains(t, Other) THEN [ok |-> TRUE, value |-> Append(t, Other)]
        ELSE [ok |-> TRUE, value |-> t]

(***************************************************************************)
(* validate(employee, tasks).  A message is the tuple of the parts of its  *)
(* f-string: << "Task", idx, text >> or << "Task", idx, text, bound >>.    *)
(***************************************************************************)
NameRequired == << "Name is required." >>

TaskRequired == << "At least one task is required." >>

MsgIf(cond, msg) == IF cond THEN << msg >> ELSE << >>

\* The body of the for loop, lines 180-198.
EntryErrors(idx, t) ==
    LET task_cat     == strip(t.task_category)
        client_notes == strip(t.client_notes)
        other_text   == strip(t.task_other_text)
        conv         == PyInt(t.quantity)
        qty          == IF conv = << >> THEN 0 ELSE conv[1]
    IN  MsgIf(task_cat = << >>, << "Task", idx, "task category is required." >>)
        \o MsgIf(qty < QTY_MIN, << "Task", idx, "quantity must be at least", QTY_MIN >>)
        \o MsgIf(qty > QTY_MAX, << "Task", idx, "quantity must be or less", QTY_MAX >>)
        \o MsgIf(Len(client_notes) < 3,
                 << "Task", idx, "Client / Project is required (min 3 characters)." >>)
        \o MsgIf(task_cat = Other /\ Len(other_text) < 3,
                 << "Task", idx, "description is required for 'Other' (min 3 characters)." >>)

\* The same with the client_notes rule left out.
EntryErrors_NoNotes(idx, t) ==
    LET task_cat     == strip(t.task_category)
        other_text   == strip(t.task_other_text)
        conv         == PyInt(t.quantity)
        qty          == IF conv = << >> THEN 0 ELSE conv[1]
    IN  MsgIf(task_cat = << >>, << "Task", idx, "task category is required." >>)
        \o MsgIf(qty < QTY_MIN, << "Task", idx, "quantity must be at least", QTY_MIN >>)
        \o MsgIf(qty > QTY_MAX, << "Task", idx, "quantity must be or less", QTY_MAX >>)
        \o MsgIf(task_cat = Other /\ Len(other_text) < 3,
                 << "Task", idx, "description is required for 'Other' (min 3 characters)." >>)

RECURSIVE LoopErrors(_, _)
LoopErrors(idx, ts) ==
    IF idx > Len(ts) THEN << >>
    ELSE EntryErrors(idx, ts[idx]) \o LoopErrors(idx + 1, ts)

\* The loop with an exclusive upper comparison: 200 is rejected.
RECURSIVE LoopErrors_Max(_, _)
LoopErrors_Max(idx, ts) ==
    IF idx > Len(ts) THEN << >>
    ELSE EntryErrors(idx, ts[idx])
         \o MsgIf(PyInt(ts[idx].quantity) = << QTY_MAX >>,
                  << "Task", idx, "quantity must be or less", QTY_MAX >>)
         \o LoopErrors_Max(idx + 1, ts)

RECURSIVE LoopErrors_NoNotes(_, _)
LoopErrors_NoNotes(idx, ts) ==
    IF idx > Len(ts) THEN << >>
    ELSE EntryErrors_NoNotes(idx, ts[idx]) \o LoopErrors_NoNotes(idx + 1, ts)

validate_Max(employee, ts) ==
    LET e0 == MsgIf(strip(employee) = << >>, NameRequired)
    IN  IF ts = << >> THEN Append(e0, TaskRequired)
        ELSE e0 \o LoopErrors_Max(1, ts)

validate_NoNotes(employee, ts) ==
    LET e0 == MsgIf(strip(employee) = << >>, NameRequired)
    IN  IF ts = << >> THEN Append(e0, TaskRequired)
        ELSE e0 \o LoopErrors_NoNotes(1, ts)

validate(employee, ts) ==
    LET e0 == MsgIf(strip(employee) = << >>, NameRequired)
    IN  IF ts = << >> THEN Append(e0, TaskRequired)
        ELSE e0 \o LoopErrors(1, ts)

(***************************************************************************)
(* The environment: what the user types and picks, what the Config tab     *)
(* holds, the submission ids uuid4 yields, and the clock.                  *)
(***************************************************************************)
Iron == << "I", "r", "o", "n" >>

NameInputs == { << " " >>, << "J", "o", " " >> }

\* st.number_input(min_value=QTY_MIN, max_value=QTY_MAX) yields only these.
QtyInputs == { QTY_MIN, QTY_MAX }

NotesInputs == { << " ", "a", "b", "c", " " >> }

OtherInputs == { << "x", "y", "z" >> }

\* Column A of the Config tab at the time of a read.
AppColumns == { << << " " >> \o Iron, << >> >>, << << " ", " " >> >> }

SheetIds == { "", "https://docs.google.com/spreadsheets/d/1t3eqKcc/edit", "1t3eqKcc" }

SubmissionIds == { "0f8fad5b", "7c9e6679" }

\* datetime.utcnow(), in hours.
Instants == { 3, 4 }

\* astimezone(BARBADOS_TZ).date(): Barbados is UTC-4.
LocalDate(t) == (t - 4) \div 24

LooksLikeUrl(id) == id = "https://docs.google.com/spreadsheets/d/1t3eqKcc/edit"

MissingSheetId == "RuntimeError: Missing sheet_id."

UrlSheetId == "RuntimeError: sheet_id looks like a URL."

NoTasksFound == "RuntimeError: No tasks found in 'Config' column A."

ThankYou == "Thank you - your submission has been saved"

(***************************************************************************)
(* Session state and the form                                              *)
(***************************************************************************)
DefaultEntry(opts) ==
    [ task_category   |-> opts[1],
      quantity        |-> PyIntVal(1),
      client_notes    |-> << >>,
      task_other_text |-> << >> ]

Session ==
    [ has_tasks     |-> has_tasks,
      tasks         |-> tasks,
      employee_name |-> employee_name,
      widget_keys   |-> widget_keys ]

\* reset_form without the pop of the name widget's state.
reset_form_KeepName(s, opts) ==
    [ s EXCEPT !.widget_keys = { },
               !.has_tasks = TRUE,
               !.tasks = << DefaultEntry(opts) >> ]

reset_form(s, opts) ==
    [ s EXCEPT !.employee_name = << >>,
               !.widget_keys = { },
               !.has_tasks = TRUE,
               !.tasks = << DefaultEntry(opts) >> ]

\* The reset applied whether or not it was requested.
TopOfScript_Always(s, opts) == reset_form(s, opts)

\* Lines 266-277: the post-submit reset, then the initialisation.
TopOfScript(s, opts) ==
    LET s1 == IF reset_requested THEN reset_form(s, opts) ELSE s
    IN  IF ~s1.has_tasks THEN reset_form(s1, opts) ELSE s1

\* add_task_row: the callback runs before the script, with the task_options
\* of the run that drew the button.
add_task_row(s) == [ s EXCEPT !.tasks = Append(s.tasks, DefaultEntry(task_options)) ]

RemoveAt(list, i) == SubSeq(list, 1, i - 1) \o SubSeq(list, i + 1, Len(list))

\* remove_task_row without its guard.
remove_task_row_NoGuard(s, i) == [ s EXCEPT !.tasks = RemoveAt(s.tasks, i) ]

\* remove_task_row(index), index = i - 1.
remove_task_row(s, i) ==
    IF Len(s.tasks) <= 1 THEN s
    ELSE [ s EXCEPT !.tasks = RemoveAt(s.tasks, i) ]

\* One pass of the loop of lines 298-342 over an entry whose widgets the user
\* has not touched: each widget returns the entry's value, the selectbox the
\* first option when the entry's category is not offered, the number input 1
\* when the quantity is no non-negative int.
RenderEntry(t, opts) ==
    LET cat == IF Contains(opts, t.task_category) THEN t.task_category ELSE opts[1]
        n   == PyInt(t.quantity)
    IN  [ task_category   |-> cat,
          quantity        |-> IF n # << >> /\ n[1] >= 0 THEN PyIntVal(n[1]) ELSE PyIntVal(1),
          client_notes    |-> t.client_notes,
          task_other_text |-> IF cat = Other THEN t.task_other_text ELSE << >> ]

RenderTasks(ts, opts) == [ i \in 1..Len(ts) |-> RenderEntry(ts[i], opts) ]

\* The keys of the widgets row i (0-based in the code) instantiates.
RowKeys(i, t) ==
    { << "task_cat_", i - 1 >>, << "qty_", i - 1 >>, << "remove_", i - 1 >>,
      << "client_", i - 1 >> }
    \cup (IF t.task_category = Other THEN { << "other_", i - 1 >> } ELSE { })

RenderKeys(ts) == UNION { RowKeys(i, ts[i]) : i \in 1..Len(ts) }

\* The whole loop: the session after the form is drawn.
Render(s, opts) ==
    LET ts == RenderTasks(s.tasks, opts)
    IN  [ s EXCEPT !.tasks = ts, !.widget_keys = RenderKeys(ts) ]

(***************************************************************************)
(* The rows of a submission, lines 358-373                                 *)
(***************************************************************************)
Row(ts, date, employee, t, sid) ==
    << ts, date, strip(employee), t.task_category, PyInt(t.quantity)[1],
       strip(t.client_notes), strip(t.task_other_text), sid >>

\* The last entry left out.
BuildRows_DropLast(ts, date, employee, entries, sid) ==
    [ i \in 1..(Len(entries) - 1) |-> Row(ts, date, employee, entries[i], sid) ]

BuildRows(ts, date, employee, entries, sid) ==
    [ i \in 1..Len(entries) |-> Row(ts, date, employee, entries[i], sid) ]

(***************************************************************************)
(* The retry loop of open_sheet_cached and append_rows_batch               *)
(***************************************************************************)
\* backoffs with a seventh entry.
backoffs_Seven == << 0, 1, 2, 4, 8, 16, 32 >>

\* backoffs, lines 92 and 141.
backoffs == << 0, 1, 2, 4, 8, 16 >>

\* The sleeps done once iteration k has slept.
Slept(w, k) == IF backoffs[k] # 0 THEN Append(w, backoffs[k]) ELSE w

\* The except clause retrying whatever the error is.
ExceptClause_RetryAll(e, k) ==
    IF k < Len(backoffs) THEN "continue" ELSE "raise"

\* The except clause of iteration k: continue, or leave the loop raising e
\* (raise, or raise last_err once the for loop is exhausted).
ExceptClause(e, k) ==
    IF _is_rate_limit_error(e) /\ k < Len(backoffs) THEN "continue" ELSE "raise"

(***************************************************************************)
(* The application: one session of the script of src/app.py                *)
(***************************************************************************)
FormScreens == { "form", "invalid", "rate_limit_writes", "submit_failed" }

\* The form is on the page and the script is waiting for the user.
FormShown == pc = "idle" /\ screen \in FormScreens

Init ==
    /\ sheet_id \in SheetIds
    /\ sheet_cached = FALSE
    /\ cache_valid = FALSE
    /\ task_options = << >>
    /\ has_tasks = FALSE
    /\ tasks = << >>
    /\ employee_name = << >>
    /\ widget_keys = { }
    /\ reset_requested = FALSE
    /\ toast_msg = NoToast
    /\ toast_shown = FALSE
    /\ pc = "load"
    /\ attempt = 0
    /\ waited = << >>
    /\ last_err = NoError
    /\ raised = NoError
    /\ rows = << >>
    /\ appended = << >>
    /\ screen = "none"
    /\ errs = << >>
    /\ arg = << >>
    /\ ret = << >>

SetSession(s) ==
    /\ has_tasks' = s.has_tasks
    /\ tasks' = s.tasks
    /\ employee_name' = s.employee_name
    /\ widget_keys' = s.widget_keys

\* The locals of a retry loop are gone once its caller has moved on.
LoopLocalsGone ==
    /\ attempt' = 0
    /\ waited' = << >>
    /\ last_err' = NoError

\* A new run starts with nothing displayed and no remote call made.
NewRun ==
    /\ LoopLocalsGone
    /\ errs' = << >>
    /\ rows' = << >>
    /\ appended' = << >>

\* What load_task_options_cached (line 257) can yield: the cached list, or,
\* the cache entry missing or expired, a read of the Config tab.
LoadResults ==
    IF cache_valid
    THEN { [ok |-> TRUE, value |-> task_options, err |-> NoError] }
    ELSE { [ok    |-> load_task_options(col).ok,
            value |-> load_task_options(col).value,
            err   |-> IF load_task_options(col).ok THEN NoError ELSE NoTasksFound]
           : col \in AppColumns }
         \cup { [ok |-> FALSE, value |-> << >>, err |-> e] : e \in ReadErrors }

\* The except clause of lines 258-264.
LoadErrorScreen(e) == IF _is_rate_limit_error(e) THEN "rate_limit_reads" ELSE "load_error"

\* The script stops at the load error; the session is as the event left it.
StopOnLoadError(s0, r) ==
    /\ SetSession(s0)
    /\ NewRun
    /\ screen' = LoadErrorScreen(r.err)
    /\ raised' = NoError
    /\ toast_shown' = FALSE
    /\ pc' = "idle"
    /\ UNCHANGED << sheet_id, sheet_cached, cache_valid, task_options,
                    reset_requested, toast_msg, arg, ret >>

\* Lines 257-273 of a run whose load succeeded.
Loaded(r) ==
    /\ cache_valid' = TRUE
    /\ task_options' = r.value
    /\ reset_requested' = FALSE
    /\ toast_msg' = NoToast
    /\ toast_shown' = (toast_msg # NoToast)
    /\ raised' = NoError
    /\ UNCHANGED << sheet_id, sheet_cached, arg, ret >>

\* A browser (re)load: a new session, the process caches kept.
NewSession ==
    /\ pc = "idle"
    /\ SetSession([has_tasks |-> FALSE, tasks |-> << >>,
                   employee_name |-> << >>, widget_keys |-> { }])
    /\ NewRun
    /\ reset_requested' = FALSE
    /\ toast_msg' = NoToast
    /\ toast_shown' = FALSE
    /\ raised' = NoError
    /\ screen' = "none"
    /\ pc' = "load"
    /\ UNCHANGED << sheet_id, sheet_cached, cache_valid, task_options, arg, ret >>

\* The TTL of st.cache_data(ttl=3600) runs out.
CacheExpire ==
    /\ pc \in { "idle", "rerun" }
    /\ cache_valid
    /\ cache_valid' = FALSE
    /\ UNCHANGED << sheet_id, sheet_cached, task_options, has_tasks, tasks,
                    employee_name, widget_keys, reset_requested, toast_msg,
                    toast_shown, pc, attempt, waited, last_err, raised, rows,
                    appended, screen, errs, arg, ret >>

\* open_sheet_cached, lines 83-93: the guards, then the loop is entered.
StartOpen ==
    /\ pc = "load"
    /\ ~cache_valid
    /\ ~sheet_cached
    /\ IF sheet_id = "" \/ LooksLikeUrl(sheet_id)
       THEN /\ screen' = LoadErrorScreen(IF sheet_id = "" THEN MissingSheetId ELSE UrlSheetId)
            /\ pc' = "idle"
            /\ UNCHANGED << attempt, waited, last_err, raised >>
       ELSE /\ pc' = "open"
            /\ attempt' = 1
            /\ waited' = << >>
            /\ last_err' = NoError
            /\ UNCHANGED << raised, screen >>
    /\ UNCHANGED << sheet_id, sheet_cached, cache_valid, task_options, has_tasks,
                    tasks, employee_name, widget_keys, reset_requested, toast_msg,
                    toast_shown, rows, appended, errs, arg, ret >>

\* One iteration of lines 94-98 in which gc.open_by_key returns.
OpenSuccess ==
    /\ pc = "open"
    /\ waited' = Slept(waited, attempt)
    /\ sheet_cached' = TRUE
    /\ pc' = "load"
    /\ UNCHANGED << sheet_id, cache_valid, task_options, has_tasks, tasks,
                    employee_name, widget_keys, reset_requested, toast_msg,
                    toast_shown, attempt, last_err, raised, rows, appended, screen,
                    errs, arg, ret >>

\* One iteration of lines 94-103 in which gc.open_by_key raises e; once the
\* loop is left, line 105 or 103 raises and lines 258-264 show the error.
OpenFailure ==
    /\ pc = "open"
    /\ \E e \in RateLimitMessages \cup OtherMessages :
        /\ waited' = Slept(waited, attempt)
        /\ last_err' = e
        /\ IF ExceptClause(e, attempt) = "continue"
           THEN /\ attempt' = attempt + 1
                /\ UNCHANGED << pc, raised, screen >>
           ELSE /\ raised' = last_err'
                /\ screen' = LoadErrorScreen(raised')
                /\ pc' = "idle"
                /\ UNCHANGED attempt
    /\ UNCHANGED << sheet_id, sheet_cached, cache_valid, task_options, has_tasks,
                    tasks, employee_name, widget_keys, reset_requested, toast_msg,
                    toast_shown, rows, appended, errs, arg, ret >>

\* Lines 117-128 and 257-277 of a run no widget of the form started.
RunTop ==
    /\ pc = "load"
    /\ cache_valid \/ sheet_cached
    /\ \E r \in LoadResults :
        IF ~r.ok
        THEN StopOnLoadError(Session, r)
        ELSE /\ Loaded(r)
             /\ SetSession(TopOfScript(Session, r.value))
             /\ NewRun
             /\ pc' = "render"
             /\ UNCHANGED screen

\* Lines 279-344 of that run: the form is drawn.
RenderForm ==
    /\ pc = "render"
    /\ SetSession(Render(Session, task_options))
    /\ screen' = "form"
    /\ pc' = "idle"
    /\ UNCHANGED << sheet_id, sheet_cached, cache_valid, task_options,
                    reset_requested, toast_msg, toast_shown, attempt, waited,
                    last_err, raised, rows, appended, errs, arg, ret >>

\* The script runs again in the same session: st.rerun(), or the Rerun
\* command of the page's menu.
Rerun ==
    /\ pc \in { "rerun", "idle" }
    /\ NewRun
    /\ raised' = NoError
    /\ toast_shown' = FALSE
    /\ screen' = "none"
    /\ pc' = "load"
    /\ UNCHANGED << sheet_id, sheet_cached, cache_valid, task_options, has_tasks,
                    tasks, employee_name, widget_keys, reset_requested, toast_msg,
                    arg, ret >>

\* A run a widget change or the Add button started: the whole script, no
\* button of the page pressed. s0 is the session the event left.
ShowForm(s0) ==
    \E r \in LoadResults :
        IF ~r.ok
        THEN StopOnLoadError(s0, r)
        ELSE /\ Loaded(r)
             /\ SetSession(Render(TopOfScript(s0, r.value), r.value))
             /\ NewRun
             /\ screen' = "form"
             /\ pc' = "idle"

EditName ==
    /\ FormShown
    /\ \E n \in NameInputs :
        ShowForm([Session EXCEPT !.employee_name = n])

EditCategory ==
    /\ FormShown
    /\ \E i \in 1..Len(tasks), c \in 1..Len(task_options) :
        ShowForm([Session EXCEPT !.tasks[i].task_category = task_options[c]])

EditQuantity ==
    /\ FormShown
    /\ \E i \in 1..Len(tasks), q \in QtyInputs :
        ShowForm([Session EXCEPT !.tasks[i].quantity = PyIntVal(q)])

EditNotes ==
    /\ FormShown
    /\ \E i \in 1..Len(tasks), v \in NotesInputs :
        ShowForm([Session EXCEPT !.tasks[i].client_notes = v])

\* The "Describe task" input exists only on a row whose category is Other.
EditOther ==
    /\ FormShown
    /\ \E i \in 1..Len(tasks), v \in OtherInputs :
        /\ tasks[i].task_category = Other
        /\ ShowForm([Session EXCEPT !.tasks[i].task_other_text = v])

AddTask ==
    /\ FormShown
    /\ Len(tasks) < MaxTasks
    /\ ShowForm(add_task_row(Session))

\* Lines 298-323 of a run the Remove button of row i started: the rows
\* before it are drawn, row i up to its button.
RenderUpTo(s, opts, i) ==
    [ s EXCEPT !.tasks =
        [ j \in 1..Len(s.tasks) |->
            IF j < i THEN RenderEntry(s.tasks[j], opts)
            ELSE IF j = i
                 THEN [ s.tasks[j] EXCEPT
                          !.task_category = RenderEntry(s.tasks[j], opts).task_category,
                          !.quantity = RenderEntry(s.tasks[j], opts).quantity ]
                 ELSE s.tasks[j] ] ]

RemoveTask ==
    /\ FormShown
    /\ \E i \in 1..Len(tasks), r \in LoadResults :
        IF ~r.ok
        THEN StopOnLoadError(Session, r)
        ELSE /\ Loaded(r)
             /\ SetSession(remove_task_row(
                    RenderUpTo(TopOfScript(Session, r.value), r.value, i), i))
             /\ NewRun
             /\ screen' = "none"
             /\ pc' = "rerun"

\* Line 352 taken as never true.
SubmitAborts_Never(found) == FALSE

\* Line 352: if errs.
SubmitAborts(found) == found # << >>

\* The Submit button, lines 350-376: the run up to the call of
\* append_rows_batch, whose open_sheet_cached is a cache hit.
Submit ==
    /\ FormShown
    /\ sheet_cached
    /\ \E r \in LoadResults :
        IF ~r.ok
        THEN StopOnLoadError(Session, r)
        ELSE LET s == Render(TopOfScript(Session, r.value), r.value)
                 name == strip(s.employee_name)
                 found == validate(name, s.tasks)
             IN  /\ Loaded(r)
                 /\ SetSession(s)
                 /\ appended' = << >>
                 /\ IF SubmitAborts(found)
                    THEN /\ errs' = found
                         /\ screen' = "invalid"
                         /\ pc' = "idle"
                         /\ rows' = << >>
                         /\ LoopLocalsGone
                    ELSE /\ errs' = << >>
                         /\ screen' = "form"
                         /\ \E sid \in SubmissionIds, t1 \in Instants, t2 \in Instants :
                              /\ t1 <= t2
                              /\ rows' = BuildRows(t1, LocalDate(t2), name, s.tasks, sid)
                         /\ pc' = "append"
                         /\ attempt' = 1
                         /\ waited' = << >>
                         /\ last_err' = NoError

\* One iteration of lines 143-155 in which values_append returns; then
\* lines 379-381.
AppendSuccess ==
    /\ pc = "append"
    /\ waited' = Slept(waited, attempt)
    /\ appended' = rows
    /\ toast_msg' = ThankYou
    /\ reset_requested' = TRUE
    /\ pc' = "rerun"
    /\ UNCHANGED << sheet_id, sheet_cached, cache_valid, task_options, has_tasks,
                    tasks, employee_name, widget_keys, toast_shown, attempt,
                    last_err, raised, rows, screen, errs, arg, ret >>

\* One iteration of lines 143-160 in which sh.worksheet or values_append
\* raises e; once the loop is left, lines 383-388 show the error.
AppendFailure ==
    /\ pc = "append"
    /\ \E e \in RateLimitMessages \cup OtherMessages :
        /\ waited' = Slept(waited, attempt)
        /\ last_err' = e
        /\ IF ExceptClause(e, attempt) = "continue"
           THEN /\ attempt' = attempt + 1
                /\ UNCHANGED << pc, raised, screen >>
           ELSE /\ raised' = last_err'
                /\ screen' = (IF _is_rate_limit_error(raised')
                              THEN "rate_limit_writes" ELSE "submit_failed")
                /\ pc' = "idle"
                /\ UNCHANGED attempt
    /\ UNCHANGED << sheet_id, sheet_cached, cache_valid, task_options, has_tasks,
                    tasks, employee_name, widget_keys, reset_requested, toast_msg,
                    toast_shown, rows, appended, errs, arg, ret >>

Next ==
    \/ NewSession
    \/ CacheExpire
    \/ StartOpen
    \/ OpenSuccess
    \/ OpenFailure
    \/ RunTop
    \/ RenderForm
    \/ Rerun
    \/ EditName
    \/ EditCategory
    \/ EditQuantity
    \/ EditNotes
    \/ EditOther
    \/ AddTask
    \/ RemoveTask
    \/ Submit
    \/ AppendSuccess
    \/ AppendFailure

Spec == Init /\ [][Next]_vars

FairSpec ==
    /\ Spec
    /\ WF_vars(OpenSuccess \/ OpenFailure)
    /\ WF_vars(AppendSuccess \/ AppendFailure)

(***************************************************************************)
(* validate and load_task_options_cached as functions of their inputs      *)
(***************************************************************************)
ValNames == { << " " >>, << "J", "o" >> }

ValCategories == { << " " >>, Iron, Other, << " " >> \o Other }

ValQuantities == { PyIntVal(0), PyIntVal(1), PyIntVal(200), PyIntVal(201) }

ValNotes == { << " ", "a", "b", " " >>, << " ", "a", "b", "c" >> }

ValOtherTexts == { << "x", "y", " " >>, << "x", "y", "z" >> }

ValEntries ==
    [ task_category : ValCategories, quantity : ValQuantities,
      client_notes : ValNotes, task_other_text : ValOtherTexts ]

SeqsUpTo(S, n) == UNION { [ 1..k -> S ] : k \in 0..n }

Cells == { << >>, << " " >>, Iron, Other, << " " >> \o Other \o << " " >> }

\* No session, no run: the application part of the state is not used.
AppOff ==
    /\ sheet_id = ""
    /\ sheet_cached = FALSE
    /\ cache_valid = FALSE
    /\ task_options = << >>
    /\ has_tasks = FALSE
    /\ tasks = << >>
    /\ employee_name = << >>
    /\ widget_keys = { }
    /\ reset_requested = FALSE
    /\ toast_msg = NoToast
    /\ toast_shown = FALSE
    /\ attempt = 0
    /\ waited = << >>
    /\ last_err = NoError
    /\ raised = NoError
    /\ rows = << >>
    /\ appended = << >>
    /\ screen = "none"
    /\ errs = << >>

InitValidate ==
    /\ AppOff
    /\ pc = "call"
    /\ arg \in [ employee : ValNames, tasks : SeqsUpTo(ValEntries, MaxValTasks) ]
    /\ ret = << >>

CallValidate ==
    /\ pc = "call"
    /\ ret' = validate(arg.employee, arg.tasks)
    /\ pc' = "return"
    /\ UNCHANGED << sheet_id, sheet_cached, cache_valid, task_options, has_tasks,
                    tasks, employee_name, widget_keys, reset_requested, toast_msg,
                    toast_shown, attempt, waited, last_err, raised, rows, appended,
                    screen, errs, arg >>

SpecValidate == InitValidate /\ [][CallValidate]_vars

InitCatalog ==
    /\ AppOff
    /\ pc = "call"
    /\ arg \in SeqsUpTo(Cells, MaxCol)
    /\ ret = << >>

CallLoad ==
    /\ pc = "call"
    /\ ret' = load_task_options(arg)
    /\ pc' = "return"
    /\ UNCHANGED << sheet_id, sheet_cached, cache_valid, task_options, has_tasks,
                    tasks, employee_name, widget_keys, reset_requested, toast_msg,
                    toast_shown, attempt, waited, last_err, raised, rows, appended,
                    screen, errs, arg >>

SpecCatalog == InitCatalog /\ [][CallLoad]_vars

(***************************************************************************)
(* Properties of the application (Spec, FairSpec)                          *)
(***************************************************************************)
\* C1: a Submit whose validation finds errors stops there: the run never
\* enters append_rows_batch with errors, and the step that displays errors
\* builds no rows, appends nothing, sets neither reset_requested nor
\* toast_msg and leaves the entries as they were.
C1_InvalidSubmitAborts ==
    [][ /\ (pc # "append" /\ pc' = "append")
            => validate(strip(employee_name'), tasks') = << >>
        /\ (FormShown /\ errs' # << >>)
            => /\ errs' = validate(strip(employee_name), tasks)
               /\ pc' = "idle"
               /\ screen' = "invalid"
               /\ rows' = << >>
               /\ appended' = << >>
               /\ ~reset_requested'
               /\ toast_msg' = NoToast
               /\ tasks' = tasks ]_vars

\* A Submit of two entries was refused.
C1_Witness ==
    /\ pc = "idle"
    /\ screen = "invalid"
    /\ errs # << >>
    /\ Len(tasks) = 2
    /\ strip(employee_name) # << >>
    /\ rows = << >>

InLoop == pc \in { "open", "append" }

\* C2: a retry loop makes at most 6 attempts and ends. It goes on only after
\* a rate-limit error, to the next attempt, which is at most the 6th; a
\* success at any attempt returns with no error raised or shown; a
\* rate-limit error at the 6th attempt ends the loop raising that last
\* error, shown as the rate-limit message of the caller; and a loop that is
\* entered is left.
C2_BoundedRetry ==
    /\ [][ InLoop =>
            /\ attempt \in 1..6
            /\ (pc' = pc) =>
                /\ attempt' = attempt + 1
                /\ attempt' <= 6
                /\ last_err' \in RateLimitMessages
            /\ (pc' \in { "rerun", "load" }) =>
                /\ raised' = NoError
                /\ screen' = screen
                /\ pc = "append" => (appended' = rows /\ pc' = "rerun")
                /\ pc = "open" => (sheet_cached' /\ pc' = "load")
            /\ (pc' = "idle" /\ last_err' \in RateLimitMessages) =>
                /\ attempt = 6
                /\ raised' = last_err'
                /\ screen' = (IF pc = "append" THEN "rate_limit_writes"
                              ELSE "rate_limit_reads") ]_vars
    /\ (InLoop ~> ~InLoop)

\* The append succeeded at the 3rd attempt, after two rate-limit errors.
C2_Witness ==
    /\ pc = "rerun"
    /\ attempt = 3
    /\ waited = << 1, 2 >>
    /\ last_err \in RateLimitMessages
    /\ appended = rows
    /\ raised = NoError

\* C3: an error that is no rate-limit error, at whatever attempt, ends the
\* loop at once: it is the exception raised, no further attempt is made, the
\* only sleeps are those before the attempts made, and the caller shows the
\* general failure message; nothing was appended and no reset is requested.
C3_OtherErrorFailsFast ==
    [][ (InLoop /\ last_err' \in OtherMessages) =>
            /\ pc' = "idle"
            /\ raised' = last_err'
            /\ attempt' = attempt
            /\ waited' = SubSeq(<< 1, 2, 4, 8, 16 >>, 1, attempt - 1)
            /\ screen' = (IF pc = "append" THEN "submit_failed" ELSE "load_error")
            /\ appended' = << >>
            /\ ~reset_requested' ]_vars

\* The append failed with another error at its 3rd attempt.
C3_Witness ==
    /\ pc = "idle"
    /\ screen = "submit_failed"
    /\ attempt = 3
    /\ raised \in OtherMessages

\* Row i is built from entry i, and all rows share one timestamp and one
\* submission id.
RowsMatchForm ==
    /\ Len(rows) = Len(tasks)
    /\ \A i \in 1..Len(rows) :
        /\ rows[i][1] = rows[1][1]
        /\ rows[i][3] = strip(employee_name)
        /\ rows[i][4] = tasks[i].task_category
        /\ rows[i][5] = tasks[i].quantity[2]
        /\ rows[i][6] = strip(tasks[i].client_notes)
        /\ rows[i][7] = strip(tasks[i].task_other_text)
        /\ rows[i][8] = rows[1][8]

\* C4: the batch handed to append_rows_batch has one row per entry, in the
\* order of the form, with one timestamp and one submission id; every attempt
\* of the loop works on that batch, and a success appends exactly it.
C4_OneBatchInFormOrder ==
    [][ /\ pc' = "append" => RowsMatchForm'
        /\ pc = "append" => (rows' = rows /\ tasks' = tasks)
        /\ (pc = "append" /\ pc' = "rerun") => appended' = rows ]_vars

\* The batch of a two-entry form is about to be sent a second time.
C4_Witness ==
    /\ pc = "append"
    /\ attempt = 2
    /\ Len(tasks) = 2
    /\ Len(rows) = 2
    /\ tasks[1] # tasks[2]

\* C5: once st.session_state.tasks exists it is never empty, and the Remove
\* button of a form with one entry leaves the list as it is.
C5_NeverEmpty ==
    [][ /\ has_tasks' => Len(tasks') >= 1
        /\ (FormShown /\ pc' = "rerun" /\ Len(tasks) = 1) => tasks' = tasks ]_vars

\* Remove was pressed on a form that showed a single row.
C5_Witness ==
    /\ pc = "rerun"
    /\ ~reset_requested
    /\ << "qty_", 0 >> \in widget_keys
    /\ << "qty_", 1 >> \notin widget_keys
    /\ Len(tasks) = 1

RowOk(row) ==
    /\ Len(row) = 8
    /\ row[1] \in Instants
    /\ row[2] \in { LocalDate(t) : t \in Instants }
    /\ strip(row[3]) # << >>
    /\ Contains(task_options, row[4])
    /\ row[5] \in 1..200
    /\ strip(row[6]) # << >>
    /\ row[4] = Other => strip(row[7]) # << >>
    /\ row[8] \in SubmissionIds

\* C6: every row handed to the remote append, and every row appended, has the
\* 8 fields timestamp, local date, employee name, category, quantity, client
\* notes, other text, submission id, with the quantity in [1,200], the name
\* and the notes not blank, and the other text not blank when the category
\* is "Other".
C6_RowsWellFormed ==
    /\ \A i \in 1..Len(rows) : RowOk(rows[i])
    /\ \A i \in 1..Len(appended) : RowOk(appended[i])

\* A batch with an "Other" row is in the retry loop.
C6_Witness ==
    /\ pc = "append"
    /\ Len(rows) = 2
    /\ rows[2][4] = Other
    /\ rows[1][5] = 200

\* The form after reset_form: one default entry, no name, no row widget keys.
ResetDone ==
    /\ ~reset_requested
    /\ has_tasks
    /\ tasks = << [ task_category   |-> task_options[1],
                    quantity        |-> PyIntVal(1),
                    client_notes    |-> << >>,
                    task_other_text |-> << >> ] >>
    /\ employee_name = << >>
    /\ widget_keys = { }
    /\ toast_shown
    /\ toast_msg = NoToast

\* C7 as stated: the run that follows a successful append sees
\* reset_requested and resets the form.
C7_NextRunResets ==
    [][ (reset_requested /\ pc = "load" /\ pc' # "load") => ResetDone' ]_vars

\* C7 amended: a successful append requests the reset and the confirmation;
\* while the reset is requested the form is not on the page and no append
\* runs; the first run that gets past the load of the task options resets the
\* form and shows the confirmation, which is shown only then; a run that stops
\* at a load error leaves the request set, and only that reset or a new
\* session, which holds no entries, clears it.
C7_ResetBeforeNextSubmit ==
    [][ /\ (pc = "append" /\ pc' = "rerun")
            => (reset_requested' /\ toast_msg' = ThankYou)
        /\ reset_requested' => (~FormShown' /\ pc' # "append")
        /\ (reset_requested /\ pc = "load" /\ pc' = "render") => ResetDone'
        /\ (reset_requested /\ pc = "load" /\ pc' = "idle")
            => (reset_requested' /\ tasks' = tasks /\ screen' \notin FormScreens)
        /\ (reset_requested /\ ~reset_requested')
            => (ResetDone' \/ (~has_tasks' /\ tasks' = << >>))
        /\ (toast_shown' /\ ~toast_shown)
            => (toast_msg = ThankYou /\ toast_msg' = NoToast) ]_vars

\* The run after a successful submission has reset the form.
C7_Witness ==
    /\ pc = "render"
    /\ ResetDone

FailureScreens == { "rate_limit_writes", "submit_failed" }

\* C10: when append_rows_batch raises, the entries and the name stay, neither
\* reset_requested nor toast_msg is set and nothing was appended; the form is
\* on the page with entries that still pass validation; and a later run with
\* no reset requested leaves entries and name alone.
C10_FailedAppendKeepsForm ==
    [][ /\ (pc = "append" /\ pc' = "idle")
            => /\ tasks' = tasks
               /\ employee_name' = employee_name
               /\ ~reset_requested'
               /\ toast_msg' = NoToast
               /\ appended' = << >>
               /\ screen' \in FailureScreens
        /\ (pc' = "idle" /\ screen' \in FailureScreens)
            => /\ FormShown'
               /\ ~reset_requested'
               /\ Len(tasks') >= 1
               /\ validate(strip(employee_name'), tasks') = << >>
        /\ (~reset_requested /\ has_tasks /\ pc = "load" /\ pc' = "render")
            => (tasks' = tasks /\ employee_name' = employee_name) ]_vars

\* The retries of a two-entry submission are exhausted, the entries in place.
C10_Witness ==
    /\ pc = "idle"
    /\ screen = "rate_limit_writes"
    /\ attempt = 6
    /\ Len(tasks) = 2
    /\ ~reset_requested

(***************************************************************************)
(* Properties of load_task_options_cached (SpecCatalog)                    *)
(***************************************************************************)
Last(list) == list[Len(list)]

\* The cells of the column read that are "Other" once trimmed, and those
\* that are not blank.
OtherCells == { i \in 1..Len(arg) : strip(arg[i]) = Other }

FilledCells == { i \in 1..Len(arg) : strip(arg[i]) # << >> }

\* The i-th filled cell, in column order.
NthFilled(i) ==
    CHOOSE j \in FilledCells : Cardinality({ k \in FilledCells : k <= j }) = i

\* C8 as stated: whatever the column holds, the list returned ends with
\* "Other" and holds "Other" exactly once.
C8_EndsWithSingleOther ==
    (pc = "return" /\ ret.ok) =>
        /\ Last(ret.value) = Other
        /\ Count(ret.value, Other) = 1

\* C8 amended: the list returned always holds "Other"; when no cell of the
\* column is "Other" the list is the filled cells followed by the one "Other";
\* when some cell is, nothing is appended and nothing removed: the list has
\* the trimmed filled cells in column order, with as many "Other" as the
\* column. A column with no filled cell yields no list.
C8_OtherAppendedOnlyIfMissing ==
    pc = "return" =>
        /\ ret.ok = (FilledCells # { })
        /\ ret.ok =>
            /\ Contains(ret.value, Other)
            /\ OtherCells = { } =>
                /\ Last(ret.value) = Other
                /\ Count(ret.value, Other) = 1
                /\ Len(ret.value) = Cardinality(FilledCells) + 1
            /\ OtherCells # { } =>
                /\ Count(ret.value, Other) = Cardinality(OtherCells)
                /\ Len(ret.value) = Cardinality(FilledCells)
            /\ \A i \in 1..Cardinality(FilledCells) :
                    ret.value[i] = strip(arg[NthFilled(i)])

\* A column without "Other" was read and the list returned ends with it.
C8_Witness ==
    /\ pc = "return"
    /\ ret.ok
    /\ Len(arg) = 3
    /\ OtherCells = { }
    /\ Last(ret.value) = Other

(***************************************************************************)
(* Properties of validate (SpecValidate)                                   *)
(***************************************************************************)
QuantityInRange(t) == t.quantity[1] = "int" /\ t.quantity[2] \in 1..200

\* The rules an entry breaks, its category read as cat.
BrokenRules(t, cat) ==
    { f \in { "task_category", "quantity", "client_notes", "task_other_text" } :
        \/ f = "task_category" /\ cat = << >>
        \/ f = "quantity" /\ ~QuantityInRange(t)
        \/ f = "client_notes" /\ Len(strip(t.client_notes)) < 3
        \/ f = "task_other_text" /\ cat = Other /\ Len(strip(t.task_other_text)) < 3 }

\* The required fields of the input that are missing: << 0, "name" >> for the
\* name, << i, field >> for a field of entry i (1-based).
MissingFields ==
    (IF strip(arg.employee) = << >> THEN { << 0, "name" >> } ELSE { })
    \cup { d \in (1..Len(arg.tasks)) \X { "task_category", "quantity", "client_notes",
                                        "task_other_text" } :
             d[2] \in BrokenRules(arg.tasks[d[1]], strip(arg.tasks[d[1]].task_category)) }

\* The list returned holds a message naming the name field or task index i.
Names(list, i) ==
    IF i = 0 THEN Contains(list, NameRequired)
    ELSE \E k \in 1..Len(list) :
            Len(list[k]) >= 2 /\ list[k][1] = "Task" /\ list[k][2] = i

OneMissingFieldIsNamed ==
    Cardinality(MissingFields) = 1 =>
        /\ ret # << >>
        /\ \A d \in MissingFields : Names(ret, d[1])

\* C9 as stated: the empty list for every input whose trimmed name is not
\* empty and whose entries each have a non-empty category, a quantity in
\* [1,200], client_notes of 3 trimmed characters and, the category being
\* "Other", task_other_text of 3 trimmed characters; and one missing field is
\* named in the list.
C9_ValidInputsPass ==
    pc = "return" =>
        /\ ( /\ strip(arg.employee) # << >>
             /\ \A i \in 1..Len(arg.tasks) :
                    BrokenRules(arg.tasks[i], arg.tasks[i].task_category) = { } )
           => ret = << >>
        /\ OneMissingFieldIsNamed

\* C9 amended: the same for the inputs with at least one entry, the category
\* taken after trimming both for being non-empty and for being "Other".
C9_ValidNonEmptyInputsPass ==
    pc = "return" =>
        /\ ( /\ arg.tasks # << >>
             /\ strip(arg.employee) # << >>
             /\ \A i \in 1..Len(arg.tasks) :
                    BrokenRules(arg.tasks[i], strip(arg.tasks[i].task_category)) = { } )
           => ret = << >>
        /\ OneMissingFieldIsNamed

\* validate has accepted two entries, one with quantity 1 and one with 200.
C9_Witness ==
    /\ pc = "return"
    /\ ret = << >>
    /\ Len(arg.tasks) = 2
    /\ arg.tasks[1].quantity = PyIntVal(1)
    /\ arg.tasks[2].quantity = PyIntVal(200)
    /\ arg.tasks[2].task_category = Other

=============================================================================
